---- MODULE Spec2Model ----
(***************************************************************************)
(* Retention sweep of the artisan backend.                                 *)
(*                                                                         *)
(* Three copies of the sweep exist in the sources:                         *)
(*   "timer"  : cleanupOldFiles, run by setInterval (unnamed/part_000)     *)
(*   "cron"   : the node-cron job "0 3 * * *"       (client/src/app.jsx)   *)
(*   "manual" : POST /api/trigger-cleanup           (client/src/app.jsx)   *)
(* part_000 opens the bucket "your-bucket-name", app.jsx the bucket named   *)
(* by process.env.BUCKET_NAME: the sweeps of the two sources meet only     *)
(* when that is the same name.  Every await in a handler is a point where  *)
(* other handlers and the store may act, so a handler is one action per    *)
(* await.                                                                  *)
(*                                                                         *)
(* Time.  Timestamps are kept relative to the present instant, in ticks:   *)
(* the present is 0, a timestamp t <= 0 lies -t ticks in the past.  The    *)
(* clock advancing by one tick moves every stored timestamp one tick back. *)
(* In milliseconds the present is EpochMs, where the arithmetic of the     *)
(* code on Date.now() is rounded.                                          *)
(* A timestamp older than every threshold a sweep can compute stays at     *)
(* Oldest: all comparisons of the code give the same answer for it.        *)
(***************************************************************************)
EXTENDS Integers, Sequences, FiniteSets, TLC

VARIABLES env, KEEP_DAYS, serverUp, store, publishing, runs, faults, touches,
          ticks

vars == <<env, KEEP_DAYS, serverUp, store, publishing, runs, faults, touches,
          ticks>>

(***************************************************************************)
(* Bounds of the model                                                     *)
(***************************************************************************)
\* ticks of the clock in one day (the sources count milliseconds)
TicksPerDay == 1
\* a sweep takes at most this many ticks from its Date.now() to its end
MaxSweepTicks == 1
\* sweeps that can be in progress or remembered at once
MaxRuns == 2
\* store calls that fail with a transient error
MaxFaults == 1
\* writes to the buckets besides the deletes of the sweeps: uploads of the
\* two generate-image handlers and metadata writes by other clients
MaxTouches == 1
\* ticks of the clock after the servers started
MaxTicks == 1

(***************************************************************************)
(* Constants of the sources                                                *)
(***************************************************************************)
\* process.env.KEEP_DAYS || 7
DefaultKeepDays == 7
\* if (ageDays > 7) in cleanupOldFiles
TimerKeepDays == 7
\* the largest retention any sweep of the model works with, in ticks
MaxKeepTicks == 7 * TicksPerDay
\* the oldest timestamp told apart from older ones: it is older than
\* Date.now() - keep for every sweep in progress
Oldest == 0 - (MaxKeepTicks + MaxSweepTicks + 1)

(***************************************************************************)
(* JavaScript values                                                       *)
(***************************************************************************)
\* a natural number of any size: its decimal digits, the most significant
\* first, without leading zeros; zero is <<0>>
Abs(a) == IF a < 0 THEN 0 - a ELSE a
Zeros(n) == [i \in 1..n |-> 0]

RECURSIVE IntDigits(_)
IntDigits(v) == IF v < 10 THEN <<v>> ELSE IntDigits(v \div 10) \o <<v % 10>>
RECURSIVE DigitsInt(_)
DigitsInt(a) ==
    IF a = <<>> THEN 0
    ELSE 10 * DigitsInt(SubSeq(a, 1, Len(a) - 1)) + a[Len(a)]

NatStrip(a) ==
    IF \A i \in 1..Len(a) : a[i] = 0 THEN <<0>>
    ELSE SubSeq(a, CHOOSE i \in 1..Len(a) :
                      a[i] # 0 /\ \A j \in 1..(i - 1) : a[j] = 0, Len(a))
NatPad(a, n) == Zeros(n - Len(a)) \o a
NatOdd(a) == a[Len(a)] % 2 = 1

\* -1, 0 or 1 as a is less than, equal to or greater than b
NatCmp(a, b) ==
    IF Len(a) # Len(b) THEN (IF Len(a) < Len(b) THEN -1 ELSE 1)
    ELSE IF a = b THEN 0
    ELSE LET i == CHOOSE i \in 1..Len(a) :
                     a[i] # b[i] /\ \A j \in 1..(i - 1) : a[j] = b[j]
         IN IF a[i] < b[i] THEN -1 ELSE 1

\* a + b: the carry into a digit comes from the nearest digit to its
\* right where the sum of the two digits is not 9
NatAdd(a, b) ==
    LET n == 1 + (IF Len(a) > Len(b) THEN Len(a) ELSE Len(b))
        x == NatPad(a, n)
        y == NatPad(b, n)
        Carry(i) ==
            IF \A j \in (i + 1)..n : x[j] + y[j] = 9 THEN 0
            ELSE LET m == CHOOSE j \in (i + 1)..n :
                             /\ x[j] + y[j] # 9
                             /\ \A k \in (i + 1)..(j - 1) : x[k] + y[k] = 9
                 IN IF x[m] + y[m] > 9 THEN 1 ELSE 0
    IN NatStrip([i \in 1..n |-> (x[i] + y[i] + Carry(i)) % 10])
\* a - b for a >= b: the borrow from a digit is asked by the nearest digit
\* to its right where the two digits differ
NatSub(a, b) ==
    LET n == Len(a)
        y == NatPad(b, n)
        Borrow(i) ==
            IF \A j \in (i + 1)..n : a[j] = y[j] THEN 0
            ELSE LET m == CHOOSE j \in (i + 1)..n :
                             /\ a[j] # y[j]
                             /\ \A k \in (i + 1)..(j - 1) : a[k] = y[k]
                 IN IF a[m] < y[m] THEN 1 ELSE 0
    IN NatStrip([i \in 1..n |-> (a[i] - y[i] - Borrow(i) + 10) % 10])

\* a * 2: the carry into a digit is 1 when the digit to its right is 5 or
\* more
NatDouble(a) ==
    LET x == <<0>> \o a \o <<0>>
    IN NatStrip([i \in 1..(Len(a) + 1) |->
                    (2 * x[i] + (IF x[i + 1] >= 5 THEN 1 ELSE 0)) % 10])
\* a / 2, rounded down
NatHalve(a) ==
    NatStrip([i \in 1..Len(a) |->
                 (a[i] + 10 * (IF i = 1 THEN 0 ELSE a[i - 1] % 2)) \div 2])
\* a * 2^j: a quarter of the doublings at a time, each product evaluated
\* before the next one starts from it
RECURSIVE NatMulPow2(_, _)
NatMulPow2(a, j) ==
    IF j = 0 THEN a
    ELSE IF j < 4 THEN NatDouble(NatMulPow2(a, j - 1))
    ELSE LET h1 == NatMulPow2(a, j \div 4)
             h2 == NatMulPow2(h1, j \div 4)
             h3 == NatMulPow2(h2, j \div 4)
         IN IF Len(h1) > 0 /\ Len(h2) > 0 /\ Len(h3) > 0
            THEN NatMulPow2(h3, j - 3 * (j \div 4))
            ELSE a
\* a * m for an integer m >= 0, by the bits of m
RECURSIVE NatMulSmall(_, _)
NatMulSmall(a, m) ==
    IF m = 0 THEN <<0>>
    ELSE IF m = 1 THEN a
    ELSE LET h == NatMulSmall(a, m \div 2)
         IN IF m % 2 = 0 THEN NatDouble(h) ELSE NatAdd(NatDouble(h), a)
\* a * 10^p
NatShift10(a, p) == IF a = <<0>> THEN a ELSE a \o Zeros(p)

\* the double-precision numbers: 53 bits of mantissa q, and q * 2^e with e
\* from -1074 to 971
MantBits == 53
MinExp == 0 - 1074
MaxExp == 971
\* a decimal literal of this magnitude or more is Infinity, of that
\* magnitude or less is 0: 10^309 > 2^1024 and 10^-324 < 2^-1075
DecOver == 309
DecUnder == 0 - 324
\* log2(10) in thousandths, rounded down
Log2Of10 == 3321
\* the most bits by which the estimate of the exponent falls short
Slack == 12

\* long division in binary.  One step takes the next bit of the quotient q
\* of R by T and halves T
DivStep(s) ==
    IF NatCmp(s.R, s.T) >= 0
    THEN [R |-> NatSub(s.R, s.T), T |-> NatHalve(s.T),
          q |-> NatAdd(NatDouble(s.q), <<1>>)]
    ELSE [R |-> s.R, T |-> NatHalve(s.T), q |-> NatDouble(s.q)]
\* n steps: one half of them, then the other
RECURSIVE DivLoop(_, _)
DivLoop(s, n) ==
    IF n = 1 THEN DivStep(s)
    ELSE LET h == DivLoop(s, n \div 2)
         IN IF Len(h.q) > 0 THEN DivLoop(h, n - n \div 2) ELSE h
\* the quotient q and the remainder R of A by B, for A < B * 2^53
Div(A, B) ==
    LET T == NatMulPow2(B, MantBits - 1)
    IN IF Len(B) > 0 /\ Len(T) > 0
       THEN DivLoop([R |-> A, T |-> T, q |-> <<0>>], MantBits)
       ELSE [R |-> A, T |-> T, q |-> <<0>>]

\* 2^52 and 2^53
TwoTo52 == NatMulPow2(<<1>>, MantBits - 1)
TwoTo53 == NatMulPow2(<<1>>, MantBits)

\* the double q * 2^e, or Infinity when it is beyond the largest double
Finite(q, e) ==
    IF q # <<0>> /\ e > MaxExp THEN [inf |-> TRUE, q |-> <<0>>, e |-> 0]
    ELSE [inf |-> FALSE, q |-> q, e |-> e]
\* the quotient dv of a division by B, rounded to the nearest mantissa,
\* a tie to the even one; a mantissa of 2^53 is 2^52 with the next exponent
RoundQuotient(dv, B, e) ==
    LET c == NatCmp(NatDouble(dv.R), B)
    IN IF Len(B) = 0 \/ Len(dv.q) = 0 THEN dv
       ELSE IF c > 0 \/ (c = 0 /\ NatOdd(dv.q))
       THEN (IF NatAdd(dv.q, <<1>>) = TwoTo53 THEN Finite(TwoTo52, e + 1)
             ELSE Finite(NatAdd(dv.q, <<1>>), e))
       ELSE Finite(dv.q, e)
\* by how many bits A / B is 2^53 or more: the s from 0 to Slack with
\* hi * 2^(s - 1) <= A < hi * 2^s for hi = B * 2^53
Excess(A, hi) ==
    IF Len(hi) = 0 THEN 0
    ELSE CHOOSE s \in 0..Slack :
        /\ NatCmp(A, NatMulPow2(hi, s)) < 0
        /\ s = 0 \/ NatCmp(A, NatMulPow2(hi, s - 1)) >= 0
\* A / B * 2^e rounded to a double, for A / B of 53 bits or a few more.
\* The operands are evaluated first, then the excess, then the division
Scaled(A, B, e) ==
    LET j == Excess(A, NatMulPow2(B, MantBits))
    IN IF Len(A) = 0 \/ Len(B) = 0 \/ j < 0 THEN Finite(<<0>>, e)
       ELSE RoundQuotient(Div(A, NatMulPow2(B, j)), NatMulPow2(B, j), e + j)
\* an exponent by which N / D has at least 53 bits, or the least exponent:
\* with d the difference of the lengths of N and D, N / D is between
\* 10^(d - 1) and 10^(d + 1)
Estimate(d) ==
    LET est == ((d - 1) * Log2Of10) \div 1000 - (MantBits + 1)
    IN IF est < MinExp THEN MinExp ELSE est
\* the double nearest to N / D for N > 0, ties to the even mantissa:
\* Infinity, or q * 2^e
ToDouble(N, D) ==
    IF Len(N) - Len(D) > DecOver THEN [inf |-> TRUE, q |-> <<0>>, e |-> 0]
    ELSE IF Len(N) - Len(D) <= DecUnder - 1 THEN [inf |-> FALSE, q |-> <<0>>, e |-> 0]
    ELSE IF Estimate(Len(N) - Len(D)) < 0
    THEN Scaled(NatMulPow2(N, 0 - Estimate(Len(N) - Len(D))), D,
                Estimate(Len(N) - Len(D)))
    ELSE Scaled(N, NatMulPow2(D, Estimate(Len(N) - Len(D))),
                Estimate(Len(N) - Len(D)))

\* a number: NaN, +Infinity or -Infinity (inf = 1 or -1), or a finite
\* double.  An integer below SmallLimit in magnitude is the integer v
\* (big = FALSE); any other finite value is n / 2^k, negated when neg, with
\* n odd when k > 0 (big = TRUE).  -0 is not told apart from 0
SmallLimit == 1000000000
Num(v) ==
    IF Abs(v) < SmallLimit
    THEN [nan |-> FALSE, inf |-> 0, big |-> FALSE, v |-> v,
          neg |-> FALSE, n |-> <<>>, k |-> 0]
    ELSE [nan |-> FALSE, inf |-> 0, big |-> TRUE, v |-> 0,
          neg |-> v < 0, n |-> IntDigits(Abs(v)), k |-> 0]
NaN == [nan |-> TRUE, inf |-> 0, big |-> FALSE, v |-> 0,
        neg |-> FALSE, n |-> <<>>, k |-> 0]
Infinity == [nan |-> FALSE, inf |-> 1, big |-> FALSE, v |-> 0,
             neg |-> FALSE, n |-> <<>>, k |-> 0]
\* the number n / 2^k, negated when neg, for n odd when k > 0
Mk(neg, n, k) ==
    IF k = 0 /\ Len(n) <= 9
    THEN Num(IF neg THEN 0 - DigitsInt(n) ELSE DigitsInt(n))
    ELSE [nan |-> FALSE, inf |-> 0, big |-> TRUE, v |-> 0,
          neg |-> neg, n |-> n, k |-> k]
\* the sign, numerator and power of two of a finite number
Parts(x) ==
    IF x.big THEN [neg |-> x.neg, n |-> x.n, k |-> x.k]
    ELSE [neg |-> x.v < 0, n |-> IntDigits(Abs(x.v)), k |-> 0]
\* -x
Neg(x) ==
    IF x.nan THEN x
    ELSE IF x.big THEN [x EXCEPT !.neg = ~x.neg]
    ELSE [x EXCEPT !.inf = 0 - x.inf, !.v = 0 - x.v]

\* q / 2^k in lowest terms: halve while q is even, at most 52 times,
\* one half of the steps and then the other
LowestStep(s) ==
    IF s.k > 0 /\ ~NatOdd(s.n) THEN [n |-> NatHalve(s.n), k |-> s.k - 1]
    ELSE s
RECURSIVE LowestLoop(_, _)
LowestLoop(s, n) ==
    IF n = 1 THEN LowestStep(s)
    ELSE LET h == LowestLoop(s, n \div 2)
         IN IF h.k >= 0 THEN LowestLoop(h, n - n \div 2) ELSE h
Lowest(q, k) == LowestLoop([n |-> q, k |-> k], MantBits - 1)
\* the number of a double
FromDouble(neg, dbl) ==
    IF dbl.inf THEN (IF neg THEN Neg(Infinity) ELSE Infinity)
    ELSE IF dbl.q = <<0>> THEN Num(0)
    ELSE IF dbl.e >= 0 THEN Mk(neg, NatMulPow2(dbl.q, dbl.e), 0)
    ELSE LET l == Lowest(dbl.q, 0 - dbl.e) IN Mk(neg, l.n, l.k)
\* N / D rounded to a double: an integer of fifteen digits is one already
Round(neg, N, D) ==
    IF N = <<0>> THEN Num(0)
    ELSE IF D = <<1>> /\ Len(N) <= 15 THEN Mk(neg, N, 0)
    ELSE FromDouble(neg, ToDouble(N, D))

\* i - x for an integer i: -1, 0 or 1 as it is negative, zero or positive
\* (x finite)
CmpInt(i, x) ==
    IF ~x.big THEN (IF i < x.v THEN -1 ELSE IF i = x.v THEN 0 ELSE 1)
    ELSE IF x.neg /\ i >= 0 THEN 1
    ELSE IF ~x.neg /\ i <= 0 THEN -1
    ELSE LET c == NatCmp(NatMulPow2(IntDigits(Abs(i)), x.k), x.n)
         IN IF x.neg THEN 0 - c ELSE c
\* i < x, i <= x and i > x for an integer i: false when x is NaN
IntLess(i, x) == ~x.nan /\ (x.inf = 1 \/ (x.inf = 0 /\ CmpInt(i, x) < 0))
IntLessEq(i, x) == ~x.nan /\ (x.inf = 1 \/ (x.inf = 0 /\ CmpInt(i, x) <= 0))
IntGreater(i, x) == ~x.nan /\ (x.inf = -1 \/ (x.inf = 0 /\ CmpInt(i, x) > 0))
\* x > 0
Positive(x) == IntLess(0, x)

\* x * m for an integer m > 0, rounded to a double: a product that in
\* lowest terms has a numerator below 2^53 is one already
Times(x, m) ==
    IF x.nan \/ x.inf # 0 THEN x
    ELSE IF ~x.big /\ Abs(x.v) <= (SmallLimit - 1) \div m THEN Num(x.v * m)
    ELSE LET p == Parts(x)
             N == NatMulSmall(p.n, m)
             l == Lowest(N, p.k)
         IN IF Len(N) = 0 \/ l.k < 0 THEN NaN
            ELSE IF NatCmp(l.n, TwoTo53) < 0 THEN Mk(p.neg, l.n, l.k)
            ELSE Round(p.neg, N, NatMulPow2(<<1>>, p.k))
\* Date.now(), the milliseconds since 1970 of the present: a whole number
\* between 2^40 and 2^41 from the year 2004 to the year 2039, where the
\* doubles are 2^-12 apart.  A time of the model is its distance in
\* milliseconds from the present
EpochMs == <<1, 7, 0, 0, 0, 0, 0, 0, 0, 0, 0, 0, 0>>
\* EpochMs + i in digits
AtEpoch(i) ==
    IF i >= 0 THEN NatAdd(EpochMs, IntDigits(i))
    ELSE NatSub(EpochMs, IntDigits(0 - i))
\* d - EpochMs for a double d, which is exact
FromEpoch(d) ==
    IF d.nan \/ d.inf # 0 THEN d
    ELSE LET p == Parts(d)
             e == NatMulPow2(EpochMs, p.k)
         IN IF p.neg THEN Mk(TRUE, NatAdd(p.n, e), p.k)
            ELSE IF NatCmp(p.n, e) >= 0 THEN Mk(FALSE, NatSub(p.n, e), p.k)
            ELSE Mk(TRUE, NatSub(e, p.n), p.k)
\* a / D - n / D rounded to a double, for the time a / D, given as its
\* distance from EpochMs
EpochMinus(a, neg, n, D) ==
    IF neg THEN FromEpoch(Round(FALSE, NatAdd(a, n), D))
    ELSE IF NatCmp(a, n) < 0 THEN FromEpoch(Round(TRUE, NatSub(n, a), D))
    ELSE FromEpoch(Round(FALSE, NatSub(a, n), D))
\* t - x for the time t = EpochMs + i, rounded to a double and given as its
\* distance from EpochMs: a whole number below 2^53 is exact
IntMinus(i, x) ==
    IF x.nan THEN NaN
    ELSE IF x.inf # 0 THEN Neg(x)
    ELSE IF ~x.big /\ Abs(i) < SmallLimit THEN Num(i - x.v)
    ELSE EpochMinus(NatMulPow2(AtEpoch(i), Parts(x).k), Parts(x).neg,
                    Parts(x).n, NatMulPow2(<<1>>, Parts(x).k))

\* an environment variable: unset (undefined), or a string of characters.
\* A character that a string of the model cannot hold is written by its
\* code point, as in "U+00A0"
EnvUnset == [set |-> FALSE, s |-> <<>>]
EnvStr(s) == [set |-> TRUE, s |-> s]
\* !v for a string or undefined: undefined and "" are falsy
Falsy(v) == ~v.set \/ v.s = <<>>

Digits == <<"0", "1", "2", "3", "4", "5", "6", "7", "8", "9">>
DigitChars == {Digits[i] : i \in 1..Len(Digits)}
DigitOf(c) == (CHOOSE i \in 1..Len(Digits) : Digits[i] = c) - 1
IsDigits(s) == Len(s) > 0 /\ \A i \in 1..Len(s) : s[i] \in DigitChars
\* the digits of a run of digit characters
CharDigits(s) == [i \in 1..Len(s) |-> DigitOf(s[i])]

\* the digits of the literals 0x.., 0o.., 0b..
HexLower == <<"0", "1", "2", "3", "4", "5", "6", "7", "8", "9",
              "a", "b", "c", "d", "e", "f">>
HexUpper == <<"0", "1", "2", "3", "4", "5", "6", "7", "8", "9",
              "A", "B", "C", "D", "E", "F">>
HexDigitOf(c) ==
    (CHOOSE i \in 1..Len(HexLower) : HexLower[i] = c \/ HexUpper[i] = c) - 1
IsHexDigit(c) == \E i \in 1..Len(HexLower) : HexLower[i] = c \/ HexUpper[i] = c
\* whether s is a non-empty run of digits of this radix
IsRadixDigits(s, radix) ==
    /\ Len(s) > 0
    /\ \A i \in 1..Len(s) : IsHexDigit(s[i]) /\ HexDigitOf(s[i]) < radix

\* the value of a run of digits of the radix 2^bits
RECURSIVE RadixNat(_, _)
RadixNat(s, bits) ==
    IF Len(s) = 1 THEN IntDigits(HexDigitOf(s[1]))
    ELSE LET h == Len(s) \div 2
             hi == RadixNat(SubSeq(s, 1, h), bits)
             lo == RadixNat(SubSeq(s, h + 1, Len(s)), bits)
         IN NatAdd(NatMulPow2(hi, bits * (Len(s) - h)), lo)

\* StrWhiteSpaceChar: the white space (tab, vertical tab, form feed, space,
\* no-break space, byte order mark, the space separators) and the line
\* terminators (line feed, carriage return, line and paragraph separator)
WhiteSpace ==
    {" ", "\t", "\n", "\r", "\f",
     "U+0009", "U+000A", "U+000B", "U+000C", "U+000D", "U+0020",
     "U+00A0", "U+1680", "U+2000", "U+2001", "U+2002", "U+2003", "U+2004",
     "U+2005", "U+2006", "U+2007", "U+2008", "U+2009", "U+200A", "U+2028",
     "U+2029", "U+202F", "U+205F", "U+3000", "U+FEFF"}

\* the first position in s of a character that is not white space, or
\* Len(s) + 1, and the last such position, or 0
FirstBlack(s) ==
    IF \A i \in 1..Len(s) : s[i] \in WhiteSpace THEN Len(s) + 1
    ELSE CHOOSE i \in 1..Len(s) :
            s[i] \notin WhiteSpace /\ \A j \in 1..(i - 1) : s[j] \in WhiteSpace
LastBlack(s) ==
    IF \A i \in 1..Len(s) : s[i] \in WhiteSpace THEN 0
    ELSE CHOOSE i \in 1..Len(s) :
            s[i] \notin WhiteSpace /\ \A j \in (i + 1)..Len(s) : s[j] \in WhiteSpace
TrimLeft(s) == SubSeq(s, FirstBlack(s), Len(s))
TrimRight(s) == SubSeq(s, 1, LastBlack(s))
Trim(s) == TrimRight(TrimLeft(s))

\* the first position of one of the characters in s, or Len(s) + 1
FirstOf(s, chars) ==
    IF \E i \in 1..Len(s) : s[i] \in chars
    THEN CHOOSE i \in 1..Len(s) :
            s[i] \in chars /\ \A j \in 1..(i - 1) : s[j] \notin chars
    ELSE Len(s) + 1

InfinityChars == <<"I", "n", "f", "i", "n", "i", "t", "y">>

\* an optional sign in front of s: the sign and what follows it
SignOf(s) == IF s # <<>> /\ s[1] = "-" THEN -1 ELSE 1
Unsigned(s) == IF s # <<>> /\ s[1] \in {"+", "-"} THEN Tail(s) ELSE s

\* an exponent of more digits than this is beyond every double
\* the digits of an exponent, as a number in digits
ExpValue(s) == NatStrip(CharDigits(s))

\* StrUnsignedDecimalLiteral without Infinity: digits, an optional point
\* with digits on at least one side, an optional exponent part; the value
\* is rounded to a double
UnsignedDecimal(s) ==
    LET e == FirstOf(s, {"e", "E"})
        mant == SubSeq(s, 1, e - 1)
        hasExp == e <= Len(s)
        expPart == SubSeq(s, e + 1, Len(s))
        expOk == ~hasExp \/ IsDigits(Unsigned(expPart))
        expNeg == hasExp /\ SignOf(expPart) = -1
        expVal == IF hasExp THEN ExpValue(Unsigned(expPart)) ELSE <<0>>
        p == FirstOf(mant, {"."})
        int == SubSeq(mant, 1, p - 1)
        frac == SubSeq(mant, p + 1, Len(mant))
        mantOk == /\ int = <<>> \/ IsDigits(int)
                  /\ frac = <<>> \/ IsDigits(frac)
                  /\ int # <<>> \/ frac # <<>>
        M == NatStrip(CharDigits(int \o frac))
        \* the value is M * 10^scale, where scale is the exponent less
        \* Len(frac), and 10^(mag - 1) <= M * 10^scale < 10^mag, where
        \* mag = Len(M) + scale = up - down, two numbers in digits
        up == NatAdd(IF expNeg THEN <<0>> ELSE expVal, IntDigits(Len(M)))
        down == NatAdd(IF expNeg THEN expVal ELSE <<0>>, IntDigits(Len(frac)))
        over == NatCmp(up, NatAdd(down, IntDigits(DecOver + 1))) >= 0
        under == NatCmp(NatAdd(up, IntDigits(0 - DecUnder)), down) <= 0
        mag == IF NatCmp(up, down) >= 0 THEN DigitsInt(NatSub(up, down))
               ELSE 0 - DigitsInt(NatSub(down, up))
        scale == mag - Len(M)
    IN IF ~(mantOk /\ expOk) THEN NaN
       ELSE IF M = <<0>> THEN Num(0)
       ELSE IF over THEN Infinity
       ELSE IF under THEN Num(0)
       ELSE Round(FALSE, NatShift10(M, IF scale > 0 THEN scale ELSE 0),
                  NatShift10(<<1>>, IF scale < 0 THEN 0 - scale ELSE 0))

\* StrDecimalLiteral: an optional sign, then Infinity or a decimal literal
WithSign(sign, x) == IF sign = -1 THEN Neg(x) ELSE x
SignedDecimal(s) ==
    WithSign(SignOf(s), IF Unsigned(s) = InfinityChars THEN Infinity
                        ELSE UnsignedDecimal(Unsigned(s)))

\* NonDecimalIntegerLiteral: 0x.., 0o.., 0b.. (no sign), else not one
IsNonDecimal(s) == Len(s) >= 2 /\ s[1] = "0" /\ s[2] \in {"x", "X", "o", "O", "b", "B"}
NonDecimal(s) ==
    LET bits == IF s[2] \in {"x", "X"} THEN 4
                ELSE IF s[2] \in {"o", "O"} THEN 3 ELSE 1
        ds == SubSeq(s, 3, Len(s))
    IN IF IsRadixDigits(ds, 2^bits)
       THEN Round(FALSE, RadixNat(ds, bits), <<1>>)
       ELSE NaN

\* Number(s), the StringToNumber of the language: white space around the
\* literal is dropped, the empty string is 0, then a decimal literal
\* (sign, Infinity, point, exponent) or a binary, octal or hexadecimal
\* integer; everything else is NaN.  The value is the nearest double
Number(s) ==
    LET t == Trim(s)
    IN IF t = <<>> THEN Num(0)
       ELSE IF IsNonDecimal(t) THEN NonDecimal(t)
       ELSE SignedDecimal(t)

\* const KEEP_DAYS = Number(process.env.KEEP_DAYS || 7)
KeepDaysOf(v) == IF Falsy(v) THEN Num(DefaultKeepDays) ELSE Number(v.s)

\* if (!PROJECT_ID || !BUCKET_NAME) process.exit(1): TRUE when startup goes on
ConfigAccepted(e) == ~(Falsy(e.PROJECT_ID) \/ Falsy(e.BUCKET_NAME))

(***************************************************************************)
(* Object keys                                                             *)
(***************************************************************************)
KeyA == <<"generated", "/", "a.png">>
KeyB == <<"generated", "/", "b.png">>
KeyC == <<"generated", "/", "c.png">>
\* imagen-<uuid>.png as part_000 names its uploads: no folder
KeyI == <<"imagen-x.png">>
KeyO == <<"other", "/", "c.png">>
\* the keys of a bucket, in the order a listing returns them (by name)
AllKeys == <<KeyA, KeyB, KeyC, KeyI, KeyO>>
Keys == {AllKeys[i] : i \in 1..Len(AllKeys)}

\* bucket.getFiles({ prefix: "generated/" })
GeneratedPrefix == <<"generated", "/">>
\* bucket.getFiles() of cleanupOldFiles: no prefix
NoPrefix == <<>>

StartsWith(k, p) == Len(k) >= Len(p) /\ SubSeq(k, 1, Len(p)) = p

Kinds == {"timer", "cron", "manual"}
PrefixOf(kind) == IF kind = "timer" THEN NoPrefix ELSE GeneratedPrefix

(***************************************************************************)
(* Buckets                                                                 *)
(***************************************************************************)
\* const BUCKET_NAME = "your-bucket-name" of part_000
YourBucketName ==
    <<"y", "o", "u", "r", "-", "b", "u", "c", "k", "e", "t", "-", "n", "a", "m", "e">>
\* the bucket names the model starts app.jsx with, besides none
EnvBucketNames == {<<"b">>, YourBucketName}
BucketNames == {YourBucketName} \cup EnvBucketNames

\* storage.bucket(BUCKET_NAME): the constant in part_000, the environment
\* variable in app.jsx
BucketOf(kind) == IF kind = "timer" THEN YourBucketName ELSE env.BUCKET_NAME.s

(***************************************************************************)
(* The age test of each sweep                                              *)
(***************************************************************************)
\* the milliseconds of a day, 24 * 60 * 60 * 1000, and of a tick
MsPerDay == 86400000
MsPerTick == MsPerDay \div TicksPerDay
\* Date.now() and new Date(meta.updated).getTime(): the milliseconds of a
\* time of the model, less EpochMs
Ms(t) == t * MsPerTick

\* x times each of the factors from left to right, each product rounded
RECURSIVE Product(_, _)
Product(x, factors) ==
    IF factors = <<>> THEN x
    ELSE CHOOSE y \in {Product(p, Tail(factors)) :
                         p \in {Times(x, Head(factors))}} : TRUE
\* KEEP_DAYS * 24 * 60 * 60 * 1000
KeepMs(keepDays) == Product(keepDays, <<24, 60, 60, 1000>>)

\* const cutoff = now - KEEP_DAYS * 24 * 60 * 60 * 1000, in milliseconds:
\* NaN when KEEP_DAYS is, -Infinity when KEEP_DAYS is Infinity
Cutoff(now, keepDays) == IntMinus(now, KeepMs(keepDays))

\* the values of process.env.KEEP_DAYS the model starts with: unset (7
\* days), 0, a retention a little under seven days, and not a number
KeepDaysChoices ==
    {EnvUnset, EnvStr(<<"0">>),
     EnvStr(<<"6", ".", "9", "9", "9", "9", "9", "9", "9", "9", "9", "9", "9",
              "9", "9">>),
     EnvStr(<<"a">>)}

\* Cutoff for every KEEP_DAYS the model starts with and every time a sweep
\* of the model can have read from the clock, worked out once
Cutoffs ==
    {[now |-> t, keepDays |-> k, cutoff |-> Cutoff(Ms(t), k)] :
        t \in Oldest..0, k \in {KeepDaysOf(v) : v \in KeepDaysChoices}}
\* the one cutoff among these, or Cutoff(Ms(now), keepDays) when there is
\* none
CutoffAmong(found, now, keepDays) ==
    IF found = {} THEN Cutoff(Ms(now), keepDays)
    ELSE (CHOOSE c \in found : TRUE).cutoff
\* Cutoff(Ms(now), keepDays), read from Cutoffs when it is there
CutoffAt(now, keepDays) ==
    CutoffAmong({c \in Cutoffs : c.now = now /\ c.keepDays = keepDays},
                now, keepDays)

\* the comparison with <= in place of <
UpdatedNotAfterCutoff(updated, cutoff) == IntLessEq(updated, cutoff)

\* if (updated < cutoff), both in milliseconds: a comparison with NaN is
\* false
UpdatedBeforeCutoff(updated, cutoff) == IntLess(updated, cutoff)

\* const ageDays = (now - created) / (1000*60*60*24); if (ageDays > 7):
\* the quotient is a real number, so the test is (now - created) > 7 days
AgeDaysOverLimit(now, created) == (now - created) > TimerKeepDays * TicksPerDay

\* the timestamp a sweep reads: metadata.timeCreated in cleanupOldFiles,
\* meta.updated in the cron job and in the trigger handler
StampOf(kind, meta) == IF kind = "timer" THEN meta.timeCreated ELSE meta.updated

\* whether a sweep of this kind, started at now, deletes an object with
\* this metadata
IsExpired(kind, now, meta, keepDays) ==
    IF kind = "timer"
    THEN AgeDaysOverLimit(now, StampOf(kind, meta))
    ELSE UpdatedBeforeCutoff(Ms(StampOf(kind, meta)), CutoffAt(now, keepDays))

(***************************************************************************)
(* The object store                                                        *)
(***************************************************************************)
NoMeta == [timeCreated |-> 0, updated |-> 0]
Never == [status |-> "never", meta |-> NoMeta]
Object(created, updated) ==
    [status |-> "present", meta |-> [timeCreated |-> created, updated |-> updated]]
Gone == [status |-> "deleted", meta |-> NoMeta]

\* a bucket nothing was ever saved in
EmptyBucket == [k \in Keys |-> Never]

Present(st, k) == st[k].status = "present"

\* the bucket a sweep of this kind works on
BucketFor(kind) == store[BucketOf(kind)]

\* bucket.getFiles({prefix}): the present objects under the prefix, by name
ListFiles(st, prefix) ==
    SelectSeq(AllKeys, LAMBDA k : Present(st, k) /\ StartsWith(k, prefix))

\* one tick earlier, not below Oldest
Back(t) == IF t - 1 < Oldest THEN Oldest ELSE t - 1

(***************************************************************************)
(* A sweep in progress                                                     *)
(***************************************************************************)
Runs == 1..MaxRuns

NoResponse == [status |-> 0, success |-> FALSE, deleted |-> 0, error |-> ""]

IdleRun ==
    [kind |-> "none", pc |-> "idle", files |-> <<>>, idx |-> 0, now |-> 0,
     ts |-> 0, deleted |-> 0, failures |-> <<>>, removed |-> {},
     old0 |-> {}, outcome |-> "none", errAt |-> "none", errMsg |-> "",
     escaped |-> FALSE, listFailed |-> FALSE, response |-> NoResponse]
\* old0: the listed objects that were past the retention at the listing;
\* removed: the objects this sweep's deletes removed; failures: what the
\* catch around the delete logged; escaped: an error left the handler;
\* listFailed: bucket.getFiles rejected

Active(run) == run.pc \in {"listing", "meta", "deleting"}

\* the object the loop is at: for (const file of files)
CurFile(run) == run.files[run.idx]

(***************************************************************************)
(* How a sweep ends and goes on                                            *)
(***************************************************************************)
\* the loop is over: the cron job logs "Done - deleted n", the trigger
\* handler answers res.json({ success: true, deleted })
SweepDone(run) ==
    [run EXCEPT !.pc = "done", !.outcome = "ok", !.now = 0, !.ts = 0,
                !.response = IF run.kind = "manual"
                             THEN [status |-> 200, success |-> TRUE,
                                   deleted |-> run.deleted, error |-> ""]
                             ELSE NoResponse]

\* the catch (err) around the whole sweep: console.error in the scheduled
\* jobs, res.status(500).json({ error: err.message }) in the trigger handler
OuterCatch(run, at, msg) ==
    [run EXCEPT !.pc = "done", !.outcome = "error", !.errAt = at,
                !.errMsg = msg, !.now = 0, !.ts = 0,
                !.response = IF run.kind = "manual"
                             THEN [status |-> 500, success |-> FALSE,
                                   deleted |-> 0, error |-> msg]
                             ELSE NoResponse]

\* the next iteration of for (const file of files), or the end of the loop
NextFile(run) ==
    IF run.idx + 1 > Len(run.files)
    THEN SweepDone([run EXCEPT !.idx = run.idx + 1])
    ELSE [run EXCEPT !.idx = run.idx + 1, !.pc = "meta", !.ts = 0]

\* await bucket.getFiles(...) returned; const now = Date.now()
AfterList(run, st, keepDays) ==
    LET files == ListFiles(st, PrefixOf(run.kind))
        r1 == [run EXCEPT !.files = files, !.idx = 1, !.now = 0,
                          !.old0 = {files[i] : i \in {j \in 1..Len(files) :
                              IsExpired(run.kind, 0, st[files[j]].meta, keepDays)}}]
    IN IF files = <<>>
       THEN SweepDone([run EXCEPT !.files = <<>>, !.idx = 1, !.old0 = {}])
       ELSE [r1 EXCEPT !.pc = "meta"]

\* await file.getMetadata() returned meta: the age test
AfterMetadata(run, meta, keepDays) ==
    IF IsExpired(run.kind, run.now, meta, keepDays)
    THEN [run EXCEPT !.pc = "deleting", !.ts = StampOf(run.kind, meta)]
    ELSE NextFile(run)

\* await file.delete() returned: deleted++ (the timer job keeps no count)
AfterDelete(run) ==
    NextFile([run EXCEPT !.removed = run.removed \cup {CurFile(run)},
                         !.deleted = IF run.kind = "timer" THEN 0
                                     ELSE run.deleted + 1])

\* await file.delete() threw: the cron job and the trigger handler catch it
\* around the delete, warn and go on; cleanupOldFiles has only the outer catch
AfterDeleteError(run, msg) ==
    IF run.kind = "timer"
    THEN OuterCatch(run, "delete", msg)
    ELSE NextFile([run EXCEPT !.failures =
             Append(run.failures, [key |-> CurFile(run), reason |-> msg])])

\* await file.getMetadata() threw: only the outer catch is around it
AfterMetadataError(run, msg) == OuterCatch(run, "meta", msg)

\* a listing error taken for an empty listing
ListErrorAsEmpty(run, msg) == SweepDone(run)

\* await bucket.getFiles() threw
AfterListError(run, msg) == OuterCatch(run, "list", msg)

(***************************************************************************)
(* Initial states                                                          *)
(***************************************************************************)
\* values of process.env.KEEP_DAYS the model starts with
EnvChoices ==
    {[PROJECT_ID |-> EnvStr(<<"p">>), BUCKET_NAME |-> EnvStr(<<"b">>),
      KEEP_DAYS |-> k] : k \in KeepDaysChoices}
    \cup {[PROJECT_ID |-> EnvStr(<<"p">>), BUCKET_NAME |-> EnvStr(YourBucketName),
           KEEP_DAYS |-> EnvUnset],
          [PROJECT_ID |-> EnvUnset, BUCKET_NAME |-> EnvStr(<<"b">>),
           KEEP_DAYS |-> EnvUnset],
          [PROJECT_ID |-> EnvStr(<<"p">>), BUCKET_NAME |-> EnvStr(<<>>),
           KEEP_DAYS |-> EnvUnset]}

\* the timestamp of something that happened this many ticks ago
Ago(n) == IF 0 - n < Oldest THEN Oldest ELSE 0 - n
DaysAgo(d) == Ago(d * TicksPerDay)

\* what a bucket holds when the model starts:
\*   the bucket of the spec's scenario (a.png 10 days, b.png 3 days old,
\*     other/c.png 30 days old);
\*   three objects under generated/ that are exactly seven days old, and
\*     are past the default retention one tick later
ScenarioStore ==
    [k \in Keys |->
        IF k = KeyA THEN Object(DaysAgo(10), DaysAgo(10))
        ELSE IF k = KeyB THEN Object(DaysAgo(3), DaysAgo(3))
        ELSE IF k = KeyO THEN Object(DaysAgo(30), DaysAgo(30))
        ELSE Never]

ThresholdStore ==
    [k \in Keys |->
        IF StartsWith(k, GeneratedPrefix)
        THEN Object(DaysAgo(DefaultKeepDays), DaysAgo(DefaultKeepDays))
        ELSE Never]

InitStores == {ScenarioStore, ThresholdStore}

InitCommon ==
    /\ env \in EnvChoices
    /\ KEEP_DAYS = KeepDaysOf(env.KEEP_DAYS)
    /\ serverUp = ConfigAccepted(env)
    /\ publishing = {}
    /\ runs = [r \in Runs |-> IdleRun]
    /\ faults = 0
    /\ touches = 0
    /\ ticks = 0

\* whether app.jsx runs on a bucket of its own: it started, and
\* process.env.BUCKET_NAME is not the name in part_000
OwnAppBucket(e) == ConfigAccepted(e) /\ e.BUCKET_NAME.s # YourBucketName

\* the buckets at the start: when app.jsx has its own bucket, it holds one
\* of InitStores and the bucket of part_000 the scenario; otherwise
\* the bucket of part_000 holds one of InitStores
InitBuckets(e, s) ==
    [b \in BucketNames |->
        IF OwnAppBucket(e)
        THEN (IF b = e.BUCKET_NAME.s THEN s
              ELSE IF b = YourBucketName THEN ScenarioStore
              ELSE EmptyBucket)
        ELSE (IF b = YourBucketName THEN s ELSE EmptyBucket)]

Init ==
    /\ InitCommon
    /\ \E s \in InitStores : store = InitBuckets(env, s)

(***************************************************************************)
(* The sweep, one action per await                                         *)
(***************************************************************************)
\* the slot a new sweep takes: the first unused one
FreeSlot(r) ==
    /\ runs[r].pc = "idle"
    /\ \A q \in Runs : runs[q].pc = "idle" => r <= q

\* setInterval fires cleanupOldFiles, cron.schedule fires its job, a client
\* posts /api/trigger-cleanup: the handler runs up to await bucket.getFiles
StartSweep(r, kind) ==
    /\ FreeSlot(r)
    /\ kind = "timer" \/ serverUp
    /\ runs' = [runs EXCEPT ![r] = [IdleRun EXCEPT !.kind = kind, !.pc = "listing"]]
    /\ UNCHANGED <<env, KEEP_DAYS, serverUp, store, publishing, faults, touches, ticks>>

GetFilesOk(r) ==
    /\ runs[r].pc = "listing"
    /\ runs' = [runs EXCEPT ![r] = AfterList(runs[r], BucketFor(runs[r].kind), KEEP_DAYS)]
    /\ UNCHANGED <<env, KEEP_DAYS, serverUp, store, publishing, faults, touches, ticks>>

GetFilesFail(r) ==
    /\ runs[r].pc = "listing"
    /\ faults < MaxFaults
    /\ faults' = faults + 1
    /\ runs' = [runs EXCEPT ![r] =
                  AfterListError([runs[r] EXCEPT !.listFailed = TRUE], "Unavailable")]
    /\ UNCHANGED <<env, KEEP_DAYS, serverUp, store, publishing, touches, ticks>>

GetMetadataOk(r) ==
    /\ runs[r].pc = "meta"
    /\ Present(BucketFor(runs[r].kind), CurFile(runs[r]))
    /\ runs' = [runs EXCEPT ![r] =
                  AfterMetadata(runs[r],
                                BucketFor(runs[r].kind)[CurFile(runs[r])].meta,
                                KEEP_DAYS)]
    /\ UNCHANGED <<env, KEEP_DAYS, serverUp, store, publishing, faults, touches, ticks>>

\* the object was deleted after the listing: getMetadata rejects with 404
GetMetadataNotFound(r) ==
    /\ runs[r].pc = "meta"
    /\ ~Present(BucketFor(runs[r].kind), CurFile(runs[r]))
    /\ runs' = [runs EXCEPT ![r] = AfterMetadataError(runs[r], "NotFound")]
    /\ UNCHANGED <<env, KEEP_DAYS, serverUp, store, publishing, faults, touches, ticks>>

GetMetadataFail(r) ==
    /\ runs[r].pc = "meta"
    /\ faults < MaxFaults
    /\ faults' = faults + 1
    /\ runs' = [runs EXCEPT ![r] = AfterMetadataError(runs[r], "Unavailable")]
    /\ UNCHANGED <<env, KEEP_DAYS, serverUp, store, publishing, touches, ticks>>

DeleteOk(r) ==
    /\ runs[r].pc = "deleting"
    /\ Present(BucketFor(runs[r].kind), CurFile(runs[r]))
    /\ store' = [store EXCEPT ![BucketOf(runs[r].kind)][CurFile(runs[r])] = Gone]
    /\ runs' = [runs EXCEPT ![r] = AfterDelete(runs[r])]
    /\ UNCHANGED <<env, KEEP_DAYS, serverUp, publishing, faults, touches, ticks>>

\* the object is gone already: file.delete() rejects with 404
DeleteNotFound(r) ==
    /\ runs[r].pc = "deleting"
    /\ ~Present(BucketFor(runs[r].kind), CurFile(runs[r]))
    /\ runs' = [runs EXCEPT ![r] = AfterDeleteError(runs[r], "NotFound")]
    /\ UNCHANGED <<env, KEEP_DAYS, serverUp, store, publishing, faults, touches, ticks>>

DeleteFail(r) ==
    /\ runs[r].pc = "deleting"
    /\ faults < MaxFaults
    /\ faults' = faults + 1
    /\ runs' = [runs EXCEPT ![r] = AfterDeleteError(runs[r], "Unavailable")]
    /\ UNCHANGED <<env, KEEP_DAYS, serverUp, store, publishing, touches, ticks>>

(***************************************************************************)
(* The rest of the world                                                   *)
(***************************************************************************)
\* the clock advances by one tick
ShiftRun(run) ==
    IF run.pc \in {"meta", "deleting"}
    THEN [run EXCEPT !.now = run.now - 1,
                     !.ts = IF run.pc = "deleting" THEN Back(run.ts) ELSE 0]
    ELSE run

ShiftObject(o) ==
    IF o.status = "present"
    THEN Object(Back(o.meta.timeCreated), Back(o.meta.updated))
    ELSE o

Elapse ==
    /\ \A r \in Runs : runs[r].pc \in {"meta", "deleting"}
                          => runs[r].now > 0 - MaxSweepTicks
    /\ store' = [b \in BucketNames |-> [k \in Keys |-> ShiftObject(store[b][k])]]
    /\ runs' = [r \in Runs |-> ShiftRun(runs[r])]

Tick ==
    /\ ticks < MaxTicks
    /\ ticks' = ticks + 1
    /\ Elapse
    /\ UNCHANGED <<env, KEEP_DAYS, serverUp, publishing, faults, touches>>

\* POST /api/generate-image of app.jsx up to await file.save(...): a new
\* object under generated/, created now
GenerateImageSave(k) ==
    /\ serverUp
    /\ StartsWith(k, GeneratedPrefix)
    /\ BucketFor("manual")[k].status = "never"
    /\ touches < MaxTouches
    /\ touches' = touches + 1
    /\ store' = [store EXCEPT ![BucketOf("manual")][k] = Object(0, 0)]
    /\ publishing' = publishing \cup {k}
    /\ UNCHANGED <<env, KEEP_DAYS, serverUp, runs, faults, ticks>>

\* await file.makePublic() rejects: the catch of the handler answers 500
\* and the object stays as file.save left it
GenerateImageMakePublicFail(k) ==
    /\ k \in publishing
    /\ publishing' = publishing \ {k}
    /\ UNCHANGED <<env, KEEP_DAYS, serverUp, store, runs, faults, touches, ticks>>

\* await file.makePublic(): a metadata write; 404 when the object is gone
GenerateImageMakePublic(k) ==
    /\ k \in publishing
    /\ publishing' = publishing \ {k}
    /\ store' = IF Present(BucketFor("manual"), k)
                THEN [store EXCEPT ![BucketOf("manual")][k].meta.updated = 0]
                ELSE store
    /\ UNCHANGED <<env, KEEP_DAYS, serverUp, runs, faults, touches, ticks>>

\* POST /api/generate-image of part_000: await file.save(buffer, { metadata,
\* public: true }) puts imagen-<uuid>.png, without a folder, in the bucket
\* of part_000; one call, no makePublic after it
GenerateImageSavePublic(k) ==
    /\ Len(k) = 1
    /\ store[YourBucketName][k].status = "never"
    /\ touches < MaxTouches
    /\ touches' = touches + 1
    /\ store' = [store EXCEPT ![YourBucketName][k] = Object(0, 0)]
    /\ UNCHANGED <<env, KEEP_DAYS, serverUp, publishing, runs, faults, ticks>>

\* another client of the bucket rewrites an object's metadata: the store
\* sets its updated time
MetadataWrite(b, k) ==
    /\ Present(store[b], k)
    /\ touches < MaxTouches
    /\ touches' = touches + 1
    /\ store' = [store EXCEPT ![b][k].meta.updated = 0]
    /\ UNCHANGED <<env, KEEP_DAYS, serverUp, publishing, runs, faults, ticks>>

Next ==
    \/ \E r \in Runs, kind \in Kinds : StartSweep(r, kind)
    \/ \E r \in Runs : GetFilesOk(r)
    \/ \E r \in Runs : GetFilesFail(r)
    \/ \E r \in Runs : GetMetadataOk(r)
    \/ \E r \in Runs : GetMetadataNotFound(r)
    \/ \E r \in Runs : GetMetadataFail(r)
    \/ \E r \in Runs : DeleteOk(r)
    \/ \E r \in Runs : DeleteNotFound(r)
    \/ \E r \in Runs : DeleteFail(r)
    \/ Tick
    \/ \E k \in Keys : GenerateImageSave(k)
    \/ \E k \in Keys : GenerateImageMakePublic(k)
    \/ \E k \in Keys : GenerateImageMakePublicFail(k)
    \/ \E k \in Keys : GenerateImageSavePublic(k)
    \/ \E b \in BucketNames, k \in Keys : MetadataWrite(b, k)

Spec == Init /\ [][Next]_vars

(***************************************************************************)
(* One sweep after the other: a sweep starts when no other is running,     *)
(* each reads the clock anew, the clock runs on and nothing else touches   *)
(* the bucket                                                              *)
(***************************************************************************)
StartSweepAlone(r, kind) ==
    /\ \A q \in Runs : ~Active(runs[q])
    /\ StartSweep(r, kind)

NextClock ==
    \/ \E r \in Runs, kind \in Kinds : StartSweepAlone(r, kind)
    \/ \E r \in Runs : GetFilesOk(r)
    \/ \E r \in Runs : GetFilesFail(r)
    \/ \E r \in Runs : GetMetadataOk(r)
    \/ \E r \in Runs : GetMetadataFail(r)
    \/ \E r \in Runs : DeleteOk(r)
    \/ \E r \in Runs : DeleteFail(r)
    \/ Tick

SpecClock == Init /\ [][NextClock]_vars

(***************************************************************************)
(* The cron job firing for ever: every day a new invocation, whether or    *)
(* not the previous one has returned; the clock runs on, other clients     *)
(* write metadata whenever they like, store calls fail MaxFaults times     *)
(***************************************************************************)
LiveStore ==
    [k \in Keys |-> IF k = KeyA THEN Object(0, 0) ELSE Never]

InitLive ==
    /\ InitCommon
    /\ env.KEEP_DAYS = EnvUnset
    /\ serverUp
    /\ store = [b \in BucketNames |->
                 IF b = env.BUCKET_NAME.s THEN LiveStore ELSE EmptyBucket]

CronFires(r) ==
    /\ ~Active(runs[r])
    /\ \A q \in Runs : q < r => Active(runs[q])
    /\ runs' = [runs EXCEPT ![r] = [IdleRun EXCEPT !.kind = "cron", !.pc = "listing"]]
    /\ UNCHANGED <<env, KEEP_DAYS, serverUp, store, publishing, faults, touches, ticks>>

ClockRuns ==
    /\ Elapse
    /\ UNCHANGED <<env, KEEP_DAYS, serverUp, publishing, faults, touches, ticks>>

AnyMetadataWrite(k) ==
    /\ Present(BucketFor("cron"), k)
    /\ store' = [store EXCEPT ![BucketOf("cron")][k].meta.updated = 0]
    /\ UNCHANGED <<env, KEEP_DAYS, serverUp, publishing, runs, faults, touches, ticks>>

NextLive ==
    \/ \E r \in Runs : CronFires(r)
    \/ \E r \in Runs : GetFilesOk(r)
    \/ \E r \in Runs : GetFilesFail(r)
    \/ \E r \in Runs : GetMetadataOk(r)
    \/ \E r \in Runs : GetMetadataNotFound(r)
    \/ \E r \in Runs : GetMetadataFail(r)
    \/ \E r \in Runs : DeleteOk(r)
    \/ \E r \in Runs : DeleteNotFound(r)
    \/ \E r \in Runs : DeleteFail(r)
    \/ ClockRuns
    \/ \E k \in Keys : AnyMetadataWrite(k)

\* the scheduler keeps firing the job, every store call returns, time passes
LiveFairness ==
    /\ WF_vars(\E r \in Runs : CronFires(r))
    /\ \A r \in Runs :
          /\ WF_vars(GetFilesOk(r))
          /\ WF_vars(GetMetadataOk(r) \/ GetMetadataNotFound(r))
          /\ WF_vars(DeleteOk(r) \/ DeleteNotFound(r))
    /\ WF_vars(ClockRuns)

SpecLive == InitLive /\ [][NextLive]_vars /\ LiveFairness

(***************************************************************************)
(* One server on its daily schedule: setInterval(cleanupOldFiles, one day) *)
(* in part_000, cron.schedule("0 3 * * *", ...) in app.jsx.  Here ticks    *)
(* counts the ticks since the schedule was last due (since the start of    *)
(* the server before the first time): the job is due when a day has gone   *)
(* by, and the scheduler calls it then, whatever the previous call is      *)
(* doing.  Neither source keeps a flag of a sweep in progress.  At most    *)
(* MaxRuns calls are in progress at once.                                  *)
(***************************************************************************)
ScheduledKinds == {"timer", "cron"}

\* the moment the schedule is due
Due == ticks = TicksPerDay

\* the scheduler calls the job: the handler runs up to await bucket.getFiles
ScheduleFires(r, kind) ==
    /\ Due
    /\ kind = "timer" \/ serverUp
    /\ \A q \in Runs : runs[q].kind \in {"none", kind}
    /\ ~Active(runs[r])
    /\ \A q \in Runs : q < r => Active(runs[q])
    /\ runs' = [runs EXCEPT ![r] = [IdleRun EXCEPT !.kind = kind, !.pc = "listing"]]
    /\ ticks' = 0
    /\ UNCHANGED <<env, KEEP_DAYS, serverUp, store, publishing, faults, touches>>

\* the clock advances by one tick towards the next time the job is due
ScheduleClock ==
    /\ ~Due
    /\ ticks' = ticks + 1
    /\ Elapse
    /\ UNCHANGED <<env, KEEP_DAYS, serverUp, publishing, faults, touches>>

NextSched ==
    \/ \E r \in Runs, kind \in ScheduledKinds : ScheduleFires(r, kind)
    \/ \E r \in Runs : GetFilesOk(r)
    \/ \E r \in Runs : GetFilesFail(r)
    \/ \E r \in Runs : GetMetadataOk(r)
    \/ \E r \in Runs : GetMetadataNotFound(r)
    \/ \E r \in Runs : GetMetadataFail(r)
    \/ \E r \in Runs : DeleteOk(r)
    \/ \E r \in Runs : DeleteNotFound(r)
    \/ \E r \in Runs : DeleteFail(r)
    \/ ScheduleClock

SpecSched == Init /\ [][NextSched]_vars

(***************************************************************************)
(* Properties                                                              *)
(***************************************************************************)
\* the retention a sweep works with, in ticks: seven days in
\* cleanupOldFiles, KEEP_DAYS in the cron job and the trigger handler
KeepTicks(kind) ==
    IF kind = "timer" THEN Num(TimerKeepDays * TicksPerDay)
    ELSE Times(KEEP_DAYS, TicksPerDay)

ListedKeys(run) == {run.files[i] : i \in 1..Len(run.files)}

\* C1: a sweep of any kind issues a delete only for an object whose age,
\* the sweep's Date.now() minus the timestamp it read, is strictly greater
\* than its keepDuration; an object of age keepDuration or less is kept
C1_KeptUntilOlder ==
    \A r \in Runs :
        LET run == runs[r] IN
        /\ run.pc = "deleting" =>
              IntGreater(run.now - run.ts, KeepTicks(run.kind))
        /\ \A k \in run.removed : k \in run.old0

\* C1 witness: the cron job or the trigger handler has examined a.png,
\* whose age at the sweep's Date.now() is exactly keepDuration, and has
\* gone on to the next object without deleting it
C1_Witness ==
    \E r \in Runs :
        /\ runs[r].kind \in {"cron", "manual"}
        /\ runs[r].pc = "meta"
        /\ runs[r].idx = 2
        /\ runs[r].files[1] = KeyA
        /\ Present(BucketFor(runs[r].kind), KeyA)
        /\ Num(runs[r].now - BucketFor(runs[r].kind)[KeyA].meta.updated)
              = KeepTicks(runs[r].kind)
        /\ touches = 0

\* C2: when a sweep has completed without an error and without a failed
\* delete, every object it listed whose age was greater than keepDuration
\* when it started is absent from the store
C2_ExpiredAbsentAfterSweep ==
    \A r \in Runs :
        (runs[r].pc = "done" /\ runs[r].outcome = "ok" /\ runs[r].failures = <<>>)
            => \A k \in runs[r].old0 : ~Present(BucketFor(runs[r].kind), k)

\* C3: a sweep lists and deletes only objects whose key begins with
\* generated/
C3_OnlyUnderPrefix ==
    \A r \in Runs :
        \A k \in ListedKeys(runs[r]) \cup runs[r].removed :
            StartsWith(k, GeneratedPrefix)

\* C4: when the delete of an object fails, the sweep still goes through all
\* the objects it listed and records the object among its failures
C4_DeleteFailureTolerated ==
    \A r \in Runs :
        (runs[r].pc = "done" /\ (runs[r].errAt = "delete" \/ runs[r].failures # <<>>))
            => /\ runs[r].idx = Len(runs[r].files) + 1
               /\ runs[r].errAt # "delete"

\* C5: when two sweeps of the cron job or the trigger handler both try to
\* delete an object and one of them removes it, the other takes the delete
\* that finds the object gone for a success: it does not record the object
\* as a failure and does not end with an error
C5_NotFoundOnDeleteIsSuccess ==
    \A r \in Runs, q \in Runs :
        (/\ r # q
         /\ runs[r].kind \in {"cron", "manual"}
         /\ runs[q].kind \in {"cron", "manual"})
            => \A k \in runs[q].removed :
                  /\ \A i \in 1..Len(runs[r].failures) : runs[r].failures[i].key # k
                  /\ ~(runs[r].errAt = "delete" /\ CurFile(runs[r]) = k)

\* C6: when the listing fails the sweep ends with one error: it has listed
\* and deleted nothing, reports no count and no failures, the trigger
\* handler answers 500 with the error, a scheduled sweep answers nothing,
\* and the error does not leave the handler
C6_ListFailureIsFatal ==
    \A r \in Runs :
        runs[r].listFailed =>
            /\ runs[r].pc = "done"
            /\ runs[r].outcome = "error"
            /\ runs[r].errAt = "list"
            /\ runs[r].files = <<>>
            /\ runs[r].removed = {}
            /\ runs[r].deleted = 0
            /\ runs[r].failures = <<>>
            /\ ~runs[r].escaped
            /\ runs[r].response =
                 IF runs[r].kind = "manual"
                 THEN [status |-> 500, success |-> FALSE, deleted |-> 0,
                       error |-> "Unavailable"]
                 ELSE NoResponse

\* C6 witness: the listing of a trigger request has failed while the bucket
\* holds an object past its retention
C6_Witness ==
    \E r \in Runs :
        /\ runs[r].listFailed
        /\ runs[r].kind = "manual"
        /\ runs[r].pc = "done"
        /\ Present(BucketFor("manual"), KeyA)
        /\ IsExpired("manual", 0, BucketFor("manual")[KeyA].meta, KEEP_DAYS)

\* C9: no sweep of the cron job or the trigger handler runs with a
\* KEEP_DAYS that is not a positive number
C9_KeepDaysPositive ==
    \A r \in Runs :
        runs[r].kind \in {"cron", "manual"}
            => Positive(KEEP_DAYS)

\* C10: a sweep ends with an error only when its listing failed: a failed
\* getMetadata or delete of one object never ends the sweep
C10_ObjectErrorsConfined ==
    \A r \in Runs :
        runs[r].outcome = "error" => runs[r].errAt = "list"

\* whether two sweeps apply the same policy: both cleanupOldFiles, or both
\* the generated/ sweep with KEEP_DAYS
SamePolicy(a, b) == (a.kind = "timer") <=> (b.kind = "timer")

\* C7: when a sweep has returned its result and a second sweep of the same
\* policy has followed it on the bucket as the first left it, the second
\* has deleted nothing and reports deleted = 0 and no failures
C7_SecondSweepDeletesNothing ==
    \A r \in Runs : (r + 1) \in Runs =>
        ((/\ runs[r].pc = "done" /\ runs[r].outcome = "ok"
          /\ runs[r + 1].pc = "done"
          /\ SamePolicy(runs[r], runs[r + 1]))
            => /\ runs[r + 1].removed = {}
               /\ runs[r + 1].deleted = 0
               /\ runs[r + 1].failures = <<>>)

\* C8: every object under generated/ that is older than KEEP_DAYS, counted
\* from its creation, is eventually deleted
C8_OldObjectsEventuallyDeleted ==
    \A k \in Keys :
        (/\ StartsWith(k, GeneratedPrefix)
         /\ Present(BucketFor("cron"), k)
         /\ IntGreater(0 - BucketFor("cron")[k].meta.timeCreated, KeepTicks("cron")))
            ~> ~Present(BucketFor("cron"), k)

\* C11: at most one scheduled sweep is in progress at any time: when the
\* job is due while the previous call of the same schedule has not
\* returned, no second call runs beside it
C11_OneScheduledSweepAtATime ==
    \A r \in Runs, q \in Runs :
        (/\ r # q
         /\ runs[r].kind \in ScheduledKinds
         /\ runs[q].kind = runs[r].kind
         /\ Active(runs[r]))
            => ~Active(runs[q])

====
